---- MODULE Spec2Model ----
(***************************************************************************)
(* Model of DAOManager (src/src/company/company-manager.js, lines 714-1318)*)
(* the proposal / voting / execution engine of the repository.             *)
(*                                                                         *)
(* Time.  The clock is an integer number of ticks; Day ticks make 24 hours. *)
(* submitVote, monitorVotes and executeDecision read the wall clock once   *)
(* (new Date()).  createProposal reads it three times: Date.now() for the  *)
(* id, new Date() for created_at and new Date() again for the end of the   *)
(* voting; the time that passes between the readings is an input of the    *)
(* call, and so is the shift of the local clock (daylight saving) that     *)
(* setDate meets when it adds calendar days.  Dates are stored as ISO      *)
(* strings and parsed back with new Date(..): at millisecond precision     *)
(* that round trip returns the instant that was stored, so the model keeps *)
(* instants.                                                               *)
(*                                                                         *)
(* Async.  createProposal, submitVote and monitorVotes contain no await:   *)
(* they run to completion in one step.  executeDecision awaits             *)
(* executeProposalLogic when the proposal has an execution contract and    *)
(* function, so it is split at that await into ExecuteDecision (up to the  *)
(* await) and ExecuteDecisionResume (after it).                            *)
(***************************************************************************)
EXTENDS Integers, Sequences, FiniteSets, Bags, TLC

\* ------------------------------------------------------------------ bounds
MaxTime == 4
MaxProposals == 1
MaxVotes == 2
MaxPending == 2
MaxPairProposals == 2

\* ------------------------------------------------------------ input sets
\* the base-36 suffix Math.random() contributes to a proposal id
RandSuffix == {"r1", "r2"}
\* with at most one proposal in the store a second suffix only renames the
\* id: the one-proposal specifications draw this one
OneSuffix == {"r1"}
Voters == {"v1", "v2"}
Executors == {"e1"}
VoteInputs == {"for", "against", "abstain", "invalid_option"}
Powers == {60000}
\* an absent override (null) and 0 are both falsy for `x || default`;
\* the model writes the absent override as 0
Null == 0
CustomVotingPeriods == {Null, -1}
CustomQuorums == {Null}
ExecutorOutcomes == {"successful", "unsuccessful", "throws"}
Limits == {50}

\* inputs of the tally specification
\* <<vote, votingPower>>
TallyBallots == {<<"for", 6000>>, <<"for", 5700>>, <<"for", -4000>>,
                 <<"against", 4000>>, <<"against", 4300>>, <<"abstain", 4000>>}
\* <<customQuorum, customThreshold, customVotingPeriod>>
TallyOverrides == {<<Null, Null, Null>>, <<1, 60, Null>>, <<1, 57, 2>>}
TallyLimits == {1, 50}

\* ------------------------------------------------------ program constants
\* constructor config, as in the end-to-end governance test
ConfigVotingPeriodDays == 1
ConfigQuorumThreshold == 10
ConfigApprovalThreshold == 51
TotalVotingPower == 1000000
\* the ticks of the clock in 24 hours
Day == 2
\* what createProposal meets between and after its clock readings:
\* <<ticks from Date.now() of the id to startTime, ticks from startTime to
\* endTime, shift of the local clock over the days setDate adds>>
NoDelay == <<0, 0, 0>>
ClockReadings == {NoDelay, <<1, 0, 0>>, <<0, 1, 0>>, <<0, 0, -1>>, <<0, 0, 1>>}
\* the steps of the clock between calls
DaySteps == {Day}
ClockSteps == {1}

VARIABLES
    clock,              \* current time (new Date())
    proposals,          \* this.proposals : Map id -> proposal
    votes,              \* this.votes : Map voteKey -> voteRecord, in insertion order
    executedProposals,  \* this.executedProposals : Set of ids
    pending,            \* bag of executeDecision calls suspended at the await
    succeeded,          \* history: ids for which an executeDecision call has returned
                        \* { success: true, ... }
    lastCall,           \* outcome of the call made by the last step: "ok", "awaiting"
                        \* (suspended at the await), "monitored" (monitorVotes
                        \* returned) or the message of the error thrown
    emitted             \* the events the last step passed to this.emit, in order

vars == <<clock, proposals, votes, executedProposals, pending, succeeded, lastCall, emitted>>

\* the messages of the errors thrown by submitVote and executeDecision
NotFound == "Proposal not found"
VotingClosed == "Voting period has ended"
AlreadyVoted == "Voter has already voted on this proposal"
InvalidChoice == "Invalid vote option"
AlreadyExecuted == "Proposal has already been executed"
VotingStillActive == "Voting period is still active"

ProposalIds == (0..MaxTime) \X RandSuffix

NoResult == [status |-> "none"]

\* `a || b` on numbers
OrElse(a, b) == IF a = Null THEN b ELSE a

\* generateProposalId: `PROP_${Date.now()}_${random suffix}`
generateProposalId(now, r) == <<now, r>>

\* voteKey = `${proposalId}_${voter}`.  Ids have the form PROP_<digits>_<base36>
\* with no further underscore, so the key determines the pair.
voteKey(pid, voter) == <<pid, voter>>

votesHas(key) == \E i \in 1..Len(votes) : voteKey(votes[i].proposal_id, votes[i].voter) = key

\* getProposalVotes
getProposalVotes(pid) == {i \in 1..Len(votes) : votes[i].proposal_id = pid}

InitialStats ==
    [total_votes |-> 0, votes_for |-> 0, votes_against |-> 0, votes_abstain |-> 0,
     voter_addresses |-> <<>>,
     voting_power_for |-> 0, voting_power_against |-> 0, voting_power_abstain |-> 0]

\* the proposal object built by createProposal
\* endTime.setDate(endTime.getDate() + days): the same local time of day
\* `days` calendar days on, which is days * 24 hours plus the shift of the
\* local clock in between
setDate(endTime, days, shift) == endTime + days * Day + shift

NewProposal(id, startTime, endTime, shift, hasExecution, customQuorum, customThreshold, customVotingPeriod) ==
    [id |-> id,
     status |-> "active",
     created_at |-> startTime,
     voting_ends_at |-> setDate(endTime, OrElse(customVotingPeriod, ConfigVotingPeriodDays), shift),
     execution |-> hasExecution,
     governance_params |->
        [quorum_threshold |-> OrElse(customQuorum, ConfigQuorumThreshold),
         approval_threshold |-> OrElse(customThreshold, ConfigApprovalThreshold),
         voting_period_days |-> OrElse(customVotingPeriod, ConfigVotingPeriodDays)],
     voting_stats |-> InitialStats,
     execution_result |-> NoResult]

\* ---------------------------------------------------------- ResultEvaluator
\* A rate is the double (a / b) * 100 of the code, kept as the exact value
\* num / den (lowest terms, den > 0) and the direction off of its rounding
\* error: -1 when the double is just below the exact value, 1 when it is
\* just above, 0 when it is the exact value or the exact value is not a whole
\* number (no threshold of the model then lies between the two).
\* The whole numbers n up to MaxWholeRate for which (n / 100) * 100 is not n
\* in IEEE 754 double arithmetic: 0.57 * 100 = 56.99999999999999 and
\* 0.07 * 100 = 7.000000000000001.  The direction depends on n only, not on
\* the numerator and denominator that give n / 100, and is mirrored for -n.
MaxWholeRate == 1000
RoundsBelow ==
    {29, 57, 58, 113, 114, 115, 116, 201, 203, 205, 207, 226, 228, 230, 232,
     251, 253, 255, 402, 406, 410, 414, 427, 431, 435, 439, 452, 456, 460,
     464, 477, 481, 485, 489, 502, 506, 510, 803, 804, 812, 820, 828, 829,
     837, 845, 853, 854, 862, 870, 878, 879, 887, 895, 903, 904, 912, 920,
     928, 929, 937, 945, 953, 954, 962, 970, 978, 979, 987, 995}
RoundsAbove ==
    {7, 14, 28, 55, 56, 109, 110, 111, 112, 218, 220, 222, 224, 243, 245,
     247, 249, 411, 415, 419, 423, 436, 440, 444, 448, 461, 465, 469, 473,
     486, 490, 494, 498, 511, 805, 813, 821, 822, 830, 838, 846, 847, 855,
     863, 871, 872, 880, 888, 896, 897, 905, 913, 921, 922, 930, 938, 946,
     947, 955, 963, 971, 972, 980, 988, 996, 997}

RECURSIVE GCD(_, _)
GCD(m, n) == IF n = 0 THEN m ELSE GCD(n, m % n)

Abs(n) == IF n < 0 THEN -n ELSE n

\* no value: the rounding of a whole rate beyond MaxWholeRate is not modelled
BeyondRoundingTables == CHOOSE x \in {} : TRUE

\* (a / b) * 100 for b # 0
Percent(a, b) ==
    LET g == GCD(Abs(a * 100), Abs(b))
        sign == IF b > 0 THEN 1 ELSE -1
        num == sign * ((a * 100) \div g)
        den == Abs(b) \div g
        dir == IF num < 0 THEN -1 ELSE 1
    IN [num |-> num, den |-> den,
        off |-> IF den # 1 THEN 0
                ELSE IF Abs(num) > MaxWholeRate THEN BeyondRoundingTables
                ELSE IF Abs(num) \in RoundsBelow THEN -dir
                ELSE IF Abs(num) \in RoundsAbove THEN dir
                ELSE 0]

\* a number literal as a rate
Whole(n) == [num |-> n, den |-> 1, off |-> 0]

\* rate >= threshold, rate > threshold, rate = n, for whole numbers t and n
RateGE(r, t) == r.num > t * r.den \/ (r.num = t * r.den /\ r.off >= 0)
RateGT(r, t) == r.num > t * r.den \/ (r.num = t * r.den /\ r.off > 0)
RateIs(r, n) == r.num = n * r.den /\ r.off = 0

calculateParticipationRate(proposal) ==
    LET s == proposal.voting_stats
        totalParticipation == s.voting_power_for + s.voting_power_against + s.voting_power_abstain
    IN Percent(totalParticipation, TotalVotingPower)

calculateCurrentResult(proposal) ==
    LET s == proposal.voting_stats
        totalVotes == s.voting_power_for + s.voting_power_against
    IN IF totalVotes = 0
       THEN [status |-> "no_votes", percentage_for |-> Whole(0), percentage_against |-> Whole(0)]
       ELSE LET percentageFor == Percent(s.voting_power_for, totalVotes)
                percentageAgainst == Percent(s.voting_power_against, totalVotes)
            IN [status |-> IF RateGT(percentageFor, proposal.governance_params.approval_threshold)
                           THEN "passing" ELSE "failing",
                percentage_for |-> percentageFor,
                percentage_against |-> percentageAgainst]

\* checkQuorumMet
checkQuorumMet(proposal) ==
    RateGE(calculateParticipationRate(proposal), proposal.governance_params.quorum_threshold)

calculateFinalResult(proposal) ==
    LET participationRate == calculateParticipationRate(proposal)
        currentResult == calculateCurrentResult(proposal)
        quorumMet == RateGE(participationRate, proposal.governance_params.quorum_threshold)
        approvalMet == RateGE(currentResult.percentage_for,
                              proposal.governance_params.approval_threshold)
    IN [passed |-> quorumMet /\ approvalMet,
        reason |-> IF ~quorumMet THEN "Quorum not met"
                   ELSE IF ~approvalMet THEN "Approval threshold not met"
                   ELSE "Proposal approved by governance",
        participation_rate |-> participationRate,
        approval_rate |-> currentResult.percentage_for,
        quorum_met |-> quorumMet,
        approval_met |-> approvalMet]

\* ----------------------------------------------------------------- events
\* the arguments of this.emit: the event's name and the fields of its payload
\* that the model keeps
proposalCreated(proposalId, proposal) ==
    [name |-> "proposalCreated", proposalId |-> proposalId,
     payload |-> [votingPeriod |-> proposal.governance_params.voting_period_days]]

\* currentStats is proposal.voting_stats, the object the call has just updated
voteSubmitted(proposalId, voter, vote, votingPower, currentStats) ==
    [name |-> "voteSubmitted", proposalId |-> proposalId,
     payload |-> [voter |-> voter, vote |-> vote, votingPower |-> votingPower,
                  currentStats |-> currentStats]]

proposalExecuted(execution) ==
    [name |-> "proposalExecuted", proposalId |-> execution.proposal_id,
     payload |-> [result |-> IF execution.final_result.passed THEN "approved" ELSE "rejected",
                  executor |-> execution.executor]]

\* ------------------------------------------------------------------- Init
Init ==
    /\ clock = 0
    /\ proposals = <<>>
    /\ votes = <<>>
    /\ executedProposals = {}
    /\ pending = EmptyBag
    /\ succeeded = {}
    /\ lastCall = "ok"
    /\ emitted = <<>>

\* the passage of time closing the proposals whose voting has ended
Tick_Finalizing(d) ==
    /\ clock + d <= MaxTime
    /\ clock' = clock + d
    /\ lastCall' = "ok"
    /\ emitted' = <<>>
    /\ proposals' = [id \in DOMAIN proposals |->
                        IF clock + d <= proposals[id].voting_ends_at THEN proposals[id]
                        ELSE [proposals[id] EXCEPT !.status = "failed"]]
    /\ UNCHANGED <<votes, executedProposals, pending, succeeded>>

\* d ticks pass
Tick(d) ==
    /\ clock + d <= MaxTime
    /\ clock' = clock + d
    /\ lastCall' = "ok"
    /\ emitted' = <<>>
    /\ UNCHANGED <<proposals, votes, executedProposals, pending, succeeded>>

\* the suspended calls of bag b, those holding proposal id marked as holding
\* an object that is no longer the one in the map
Orphan(b, id) ==
    LET mark(c) == IF c.pid = id THEN [c EXCEPT !.orphaned = TRUE] ELSE c
        image == {mark(c) : c \in DOMAIN b}
        sum(S) == LET RECURSIVE f(_)
                      f(T) == IF T = {} THEN 0
                              ELSE LET x == CHOOSE y \in T : TRUE IN b[x] + f(T \ {x})
                  IN f(S)
    IN [d \in image |-> sum({c \in DOMAIN b : mark(c) = d})]

\* ---------------------------------------------------------- createProposal
\* this.proposals.set(proposalId, proposal): an id already in the map is
\* overwritten.  A caller suspended in executeDecision keeps its reference to
\* the replaced object (pending[e].orphaned).
\* createProposal assigning a new map that holds the new proposal only
createProposal_Replacing(r, hasExecution, customQuorum, customThreshold, customVotingPeriod, readings) ==
    LET proposalId == generateProposalId(clock, r)
        startTime == clock + readings[1]
        endTime == startTime + readings[2]
        proposal == NewProposal(proposalId, startTime, endTime, readings[3], hasExecution,
                                customQuorum, customThreshold, customVotingPeriod)
    IN /\ proposals' = (proposalId :> proposal)
       /\ pending' = Orphan(pending, proposalId)
       /\ lastCall' = "ok"
       /\ emitted' = <<proposalCreated(proposalId, proposal)>>
       /\ clock' = endTime
       /\ UNCHANGED <<votes, executedProposals, succeeded>>

createProposal(r, hasExecution, customQuorum, customThreshold, customVotingPeriod, readings) ==
    LET proposalId == generateProposalId(clock, r)
        startTime == clock + readings[1]
        endTime == startTime + readings[2]
        proposal == NewProposal(proposalId, startTime, endTime, readings[3], hasExecution,
                                customQuorum, customThreshold, customVotingPeriod)
    IN /\ proposals' = (proposalId :> proposal) @@ proposals
       /\ pending' = Orphan(pending, proposalId)
       /\ lastCall' = "ok"
       /\ emitted' = <<proposalCreated(proposalId, proposal)>>
       /\ clock' = endTime
       /\ UNCHANGED <<votes, executedProposals, succeeded>>

\* -------------------------------------------------------------- submitVote
\* submitVoteError without the ledger check (votes.has)
submitVoteError_NoLedgerCheck(proposalId, voter, vote) ==
    IF proposalId \notin DOMAIN proposals THEN NotFound
    ELSE IF clock > proposals[proposalId].voting_ends_at THEN VotingClosed
    ELSE IF vote \notin {"for", "against", "abstain"} THEN InvalidChoice
    ELSE "ok"

\* the validation sequence of submitVote, in source order
submitVoteError(proposalId, voter, vote) ==
    IF proposalId \notin DOMAIN proposals THEN NotFound
    ELSE IF clock > proposals[proposalId].voting_ends_at THEN VotingClosed
    ELSE IF votesHas(voteKey(proposalId, voter)) THEN AlreadyVoted
    ELSE IF vote \notin {"for", "against", "abstain"} THEN InvalidChoice
    ELSE "ok"

\* updateStats writing the vote's figures over the counters (a lost update)
updateStats_LostUpdate(s, voter, vote, votingPower) ==
    LET s1 == [s EXCEPT !.total_votes = 1,
                        !.voter_addresses = <<voter>>]
    IN CASE vote = "for" ->
              [s1 EXCEPT !.votes_for = 1, !.voting_power_for = votingPower]
         [] vote = "against" ->
              [s1 EXCEPT !.votes_against = 1, !.voting_power_against = votingPower]
         [] vote = "abstain" ->
              [s1 EXCEPT !.votes_abstain = 1, !.voting_power_abstain = votingPower]
         [] OTHER -> s1

\* the tally update of submitVote
updateStats(s, voter, vote, votingPower) ==
    LET s1 == [s EXCEPT !.total_votes = @ + 1,
                        !.voter_addresses = Append(@, voter)]
    IN CASE vote = "for" ->
              [s1 EXCEPT !.votes_for = @ + 1, !.voting_power_for = @ + votingPower]
         [] vote = "against" ->
              [s1 EXCEPT !.votes_against = @ + 1, !.voting_power_against = @ + votingPower]
         [] vote = "abstain" ->
              [s1 EXCEPT !.votes_abstain = @ + 1, !.voting_power_abstain = @ + votingPower]
         [] OTHER -> s1

\* this.votes.set(key, record): a key already in the map keeps its place and
\* gets the new record, a new key is added at the end
votesSet(key, record) ==
    IF votesHas(key)
    THEN [i \in 1..Len(votes) |->
            IF voteKey(votes[i].proposal_id, votes[i].voter) = key THEN record ELSE votes[i]]
    ELSE Append(votes, record)

\* submitVote counting the vote before it validates the option
submitVote_TallyBeforeValidation(proposalId, voter, vote, votingPower) ==
    LET err == submitVoteError(proposalId, voter, vote)
        voteRecord == [proposal_id |-> proposalId, voter |-> voter, vote |-> vote,
                       voting_power |-> votingPower, timestamp |-> clock]
    IN /\ lastCall' = err
       /\ IF err = "ok"
          THEN /\ votes' = votesSet(voteKey(proposalId, voter), voteRecord)
               /\ proposals' = [proposals EXCEPT ![proposalId].voting_stats =
                                   updateStats(@, voter, vote, votingPower)]
          ELSE IF err = InvalidChoice
          THEN /\ votes' = votes
               /\ proposals' = [proposals EXCEPT ![proposalId].voting_stats.total_votes = @ + 1]
          ELSE UNCHANGED <<votes, proposals>>
       /\ emitted' = IF err = "ok"
                     THEN <<voteSubmitted(proposalId, voter, vote, votingPower,
                                          proposals'[proposalId].voting_stats)>>
                     ELSE <<>>
       /\ UNCHANGED <<clock, executedProposals, pending, succeeded>>

\* submitVote emitting voteSubmitted before it updates the tally
submitVote_EmitsFirst(proposalId, voter, vote, votingPower) ==
    LET err == submitVoteError(proposalId, voter, vote)
        voteRecord == [proposal_id |-> proposalId, voter |-> voter, vote |-> vote,
                       voting_power |-> votingPower, timestamp |-> clock]
    IN /\ lastCall' = err
       /\ IF err = "ok"
          THEN /\ votes' = votesSet(voteKey(proposalId, voter), voteRecord)
               /\ proposals' = [proposals EXCEPT ![proposalId].voting_stats =
                                   updateStats(@, voter, vote, votingPower)]
          ELSE UNCHANGED <<votes, proposals>>
       /\ emitted' = IF err = "ok"
                     THEN <<voteSubmitted(proposalId, voter, vote, votingPower,
                                          proposals[proposalId].voting_stats)>>
                     ELSE <<>>
       /\ UNCHANGED <<clock, executedProposals, pending, succeeded>>

submitVote(proposalId, voter, vote, votingPower) ==
    LET err == submitVoteError(proposalId, voter, vote)
        voteRecord == [proposal_id |-> proposalId, voter |-> voter, vote |-> vote,
                       voting_power |-> votingPower, timestamp |-> clock]
    IN /\ lastCall' = err
       /\ IF err = "ok"
          THEN /\ votes' = votesSet(voteKey(proposalId, voter), voteRecord)
               /\ proposals' = [proposals EXCEPT ![proposalId].voting_stats =
                                   updateStats(@, voter, vote, votingPower)]
          ELSE UNCHANGED <<votes, proposals>>
       /\ emitted' = IF err = "ok"
                     THEN <<voteSubmitted(proposalId, voter, vote, votingPower,
                                          proposals'[proposalId].voting_stats)>>
                     ELSE <<>>
       /\ UNCHANGED <<clock, executedProposals, pending, succeeded>>

\* ------------------------------------------------------------ monitorVotes
\* isActive of monitorVotes
isActive(proposal) == clock <= proposal.voting_ends_at

\* results.active_proposals (ids), for the optional proposalId filter
activeProposals(filter) ==
    {id \in DOMAIN proposals :
        /\ (filter = {} \/ id \in filter)
        /\ isActive(proposals[id])}

\* results.voting_statistics (its keys)
votingStatistics(filter, includeHistory) ==
    {id \in DOMAIN proposals :
        /\ (filter = {} \/ id \in filter)
        /\ (isActive(proposals[id]) \/ includeHistory)}

\* Array.prototype.sort with the comparator
\* (a, b) => new Date(b.timestamp) - new Date(a.timestamp): a stable sort, so
\* records of equal timestamps keep the order they have in the array
RECURSIVE sortByRecency(_)
sortByRecency(records) ==
    IF records = <<>> THEN <<>>
    ELSE LET n == Len(records)
             sorted == sortByRecency(SubSeq(records, 1, n - 1))
             k == Cardinality({i \in 1..Len(sorted) :
                                 sorted[i].timestamp >= records[n].timestamp})
         IN SubSeq(sorted, 1, k) \o <<records[n]>> \o SubSeq(sorted, k + 1, Len(sorted))

\* results.recent_votes: Array.from(this.votes.values()).sort(..).slice(0, limit)
recentVotes(limit) ==
    LET sorted == sortByRecency(votes)
    IN SubSeq(sorted, 1, IF limit < Len(sorted) THEN limit ELSE Len(sorted))

\* monitorVotes marking the proposals whose voting has ended
monitorVotes_Expiring(filter, includeHistory, limit) ==
    /\ lastCall' = "monitored"
    /\ emitted' = <<>>
    /\ proposals' = [id \in DOMAIN proposals |->
                        IF isActive(proposals[id]) THEN proposals[id]
                        ELSE [proposals[id] EXCEPT !.status = "expired"]]
    /\ UNCHANGED <<clock, votes, executedProposals, pending, succeeded>>

\* monitorVotes builds its results from copies ({...proposal},
\* Array.from(this.votes.values())) and assigns nothing to the stores
monitorVotes(filter, includeHistory, limit) ==
    /\ lastCall' = "monitored"
    /\ emitted' = <<>>
    /\ UNCHANGED <<clock, proposals, votes, executedProposals, pending, succeeded>>

\* --------------------------------------------------------- executeDecision
\* `Proposal failed: ${finalResult.reason}`
ProposalFailedMessage(reason) ==
    CASE reason = "Quorum not met" -> "Proposal failed: Quorum not met"
      [] reason = "Approval threshold not met" -> "Proposal failed: Approval threshold not met"
      [] OTHER -> "Proposal failed: Proposal approved by governance"

\* executeDecisionError without the check of the verdict
executeDecisionError_NoVerdictCheck(proposalId, forceExecution) ==
    IF proposalId \notin DOMAIN proposals THEN NotFound
    ELSE IF proposalId \in executedProposals THEN AlreadyExecuted
    ELSE IF clock <= proposals[proposalId].voting_ends_at /\ ~forceExecution
         THEN VotingStillActive
    ELSE "ok"

\* executeDecisionError with now < votingEnd for now <= votingEnd
executeDecisionError_StrictDeadline(proposalId, forceExecution) ==
    IF proposalId \notin DOMAIN proposals THEN NotFound
    ELSE IF proposalId \in executedProposals THEN AlreadyExecuted
    ELSE IF clock < proposals[proposalId].voting_ends_at /\ ~forceExecution
         THEN VotingStillActive
    ELSE IF ~calculateFinalResult(proposals[proposalId]).passed /\ ~forceExecution
         THEN ProposalFailedMessage(calculateFinalResult(proposals[proposalId]).reason)
    ELSE "ok"

\* the validation sequence of executeDecision, in source order
executeDecisionError(proposalId, forceExecution) ==
    IF proposalId \notin DOMAIN proposals THEN NotFound
    ELSE IF proposalId \in executedProposals THEN AlreadyExecuted
    ELSE IF clock <= proposals[proposalId].voting_ends_at /\ ~forceExecution
         THEN VotingStillActive
    ELSE IF ~calculateFinalResult(proposals[proposalId]).passed /\ ~forceExecution
         THEN ProposalFailedMessage(calculateFinalResult(proposals[proposalId]).reason)
    ELSE "ok"

\* the `execution` object of executeDecision
NewExecution(proposalId, executor, now, finalResult) ==
    [proposal_id |-> proposalId, executor |-> executor, executed_at |-> now,
     final_result |-> finalResult, execution_details |-> "null", status |-> "pending"]

\* markExecuted without executedProposals.add
markExecuted_NoSetAdd(proposalId, execution, orphaned) ==
    /\ executedProposals' = executedProposals
    /\ proposals' = IF orphaned THEN proposals
                    ELSE [proposals EXCEPT ![proposalId].status = "executed",
                                           ![proposalId].execution_result = execution]

\* "Mark proposal as executed": the statements after the inner if/else
markExecuted(proposalId, execution, orphaned) ==
    /\ executedProposals' = executedProposals \cup {proposalId}
    /\ proposals' = IF orphaned THEN proposals
                    ELSE [proposals EXCEPT ![proposalId].status = "executed",
                                           ![proposalId].execution_result = execution]

\* executeDecision up to its return, its throw or its await
executeDecision(proposalId, executor, forceExecution) ==
    LET err == executeDecisionError(proposalId, forceExecution)
    IN IF err # "ok"
       THEN /\ lastCall' = err
            /\ emitted' = <<>>
            /\ UNCHANGED <<clock, proposals, votes, executedProposals, pending, succeeded>>
       ELSE LET proposal == proposals[proposalId]
                execution == NewExecution(proposalId, executor, clock,
                                          calculateFinalResult(proposal))
            IN IF proposal.execution
               THEN \* await this.executeProposalLogic(...)
                    /\ pending' = pending (+) SetToBag({[pid |-> proposalId,
                                                         execution |-> execution,
                                                         orphaned |-> FALSE]})
                    /\ lastCall' = "awaiting"
                    /\ emitted' = <<>>
                    /\ UNCHANGED <<clock, proposals, votes, executedProposals, succeeded>>
               ELSE /\ markExecuted(proposalId,
                                    [execution EXCEPT !.execution_details = "governance_only",
                                                      !.status = "success"], FALSE)
                    /\ succeeded' = succeeded \cup {proposalId}
                    /\ lastCall' = "ok"
                    /\ emitted' = <<proposalExecuted(execution)>>
                    /\ UNCHANGED <<clock, votes, pending>>

\* executeDecision from the await on; outcome is what executeProposalLogic
\* produced: a result with execution_successful true or false, or a rejection
executeDecisionResume(call, outcome) ==
    /\ BagIn(call, pending)
    /\ pending' = pending (-) SetToBag({call})
    /\ IF outcome # "throws"
       THEN /\ markExecuted(call.pid,
                            [call.execution EXCEPT !.execution_details = outcome,
                                                   !.status = "success"], call.orphaned)
            /\ succeeded' = succeeded \cup {call.pid}
            /\ lastCall' = "ok"
            /\ emitted' = <<proposalExecuted(call.execution)>>
       ELSE \* catch (executionError)
            /\ proposals' = IF call.orphaned THEN proposals
                            ELSE [proposals EXCEPT ![call.pid].execution_result =
                                     [call.execution EXCEPT !.status = "failed"]]
            /\ lastCall' = "executionError"
            /\ emitted' = <<>>
            /\ UNCHANGED <<executedProposals, succeeded>>
    /\ UNCHANGED <<clock, votes>>

\* ----------------------------------------------------------------- queries
\* getActiveProposals (ids): new Date(proposal.voting_ends_at) > now
getActiveProposals ==
    {id \in DOMAIN proposals : proposals[id].voting_ends_at > clock}

\* ------------------------------------------------------------------- Next
\* The environment: which calls are made.  The bounds stop a call that would
\* grow the store, the ledger or the set of suspended calls past its bound.
StoreHasRoom(r) ==
    Cardinality(DOMAIN proposals \cup {generateProposalId(clock, r)}) <= MaxProposals

\* the clock stays within its bound over the readings of createProposal
ClockHasRoom(readings) == clock + readings[1] + readings[2] <= MaxTime

LedgerHasRoom(id, v, c) ==
    submitVoteError(id, v, c) = "ok" => Len(votes) < MaxVotes

MayAwait(id, f) ==
    (executeDecisionError(id, f) = "ok" /\ proposals[id].execution)
        => BagCardinality(pending) < MaxPending

\* one id that is never in the store stands for all unknown ids
UnknownId == <<-1, "r1">>
CallIds == DOMAIN proposals \cup {UnknownId}

\* the part of the state the program holds (all but the clock and the history)
store == <<proposals, votes, executedProposals, pending>>

Next ==
    \/ \E d \in DaySteps : Tick(d)
    \/ \E r \in OneSuffix, x \in BOOLEAN, q \in CustomQuorums, p \in CustomVotingPeriods :
          StoreHasRoom(r) /\ createProposal(r, x, q, Null, p, NoDelay)
    \/ \E id \in DOMAIN proposals, v \in Voters, c \in VoteInputs, w \in Powers :
          LedgerHasRoom(id, v, c) /\ submitVote(id, v, c, w)
    \/ \E v \in Voters, w \in Powers :
          submitVote(UnknownId, v, "for", w)
    \/ \E f \in {{}} \cup {{id} : id \in CallIds}, h \in BOOLEAN, l \in Limits :
          monitorVotes(f, h, l)
    \/ \E id \in CallIds, e \in Executors, f \in BOOLEAN :
          MayAwait(id, f) /\ executeDecision(id, e, f)
    \/ \E call \in DOMAIN pending, o \in ExecutorOutcomes :
          executeDecisionResume(call, o)

Spec == Init /\ [][Next]_vars

\* The tally specification: proposals without executable code, created with
\* overrides of every governance parameter, and votes of several powers.
NextTally ==
    \/ \E d \in DaySteps : Tick(d)
    \/ \E r \in OneSuffix, o \in TallyOverrides :
          StoreHasRoom(r) /\ createProposal(r, FALSE, o[1], o[2], o[3], NoDelay)
    \/ \E id \in DOMAIN proposals, v \in Voters, b \in TallyBallots :
          LedgerHasRoom(id, v, b[1]) /\ submitVote(id, v, b[1], b[2])
    \/ \E f \in {{}} \cup {{id} : id \in DOMAIN proposals}, h \in BOOLEAN, l \in TallyLimits :
          monitorVotes(f, h, l)
    \/ \E id \in DOMAIN proposals, e \in Executors, f \in BOOLEAN :
          executeDecision(id, e, f)

SpecTally == Init /\ [][NextTally]_vars

\* The pair specification: two proposals side by side, created at one
\* instant with different suffixes or at different instants, with and without
\* executable code, under the configured governance parameters.
PairHasRoom(r) ==
    Cardinality(DOMAIN proposals \cup {generateProposalId(clock, r)}) <= MaxPairProposals

\* the suffixes drawn at this instant: the suffixes are interchangeable, so
\* the first id of an instant is the one with the first suffix
PairSuffixes ==
    IF \E id \in DOMAIN proposals : id[1] = clock THEN RandSuffix ELSE OneSuffix

PairVoters == {"v1"}
PairVoteInputs == {"for", "invalid_option"}
PairOutcomes == {"successful", "throws"}

PairMayAwait(id, f) ==
    (executeDecisionError(id, f) = "ok" /\ proposals[id].execution) => pending = EmptyBag

NextPair ==
    \/ \E d \in DaySteps : Tick(d)
    \/ \E r \in PairSuffixes, x \in BOOLEAN :
          PairHasRoom(r) /\ createProposal(r, x, Null, Null, Null, NoDelay)
    \/ \E id \in CallIds, v \in PairVoters, c \in PairVoteInputs, w \in Powers :
          LedgerHasRoom(id, v, c) /\ submitVote(id, v, c, w)
    \/ \E l \in Limits :
          monitorVotes({}, FALSE, l)
    \/ \E id \in CallIds, e \in Executors, f \in BOOLEAN :
          PairMayAwait(id, f) /\ executeDecision(id, e, f)
    \/ \E call \in DOMAIN pending, o \in PairOutcomes :
          executeDecisionResume(call, o)

SpecPair == Init /\ [][NextPair]_vars

\* The clock specification: the clock moves tick by tick, createProposal
\* meets every delay between its clock readings and every shift of the local
\* clock, and votes arrive at every instant.
NextClock ==
    \/ \E d \in ClockSteps : Tick(d)
    \/ \E r \in OneSuffix, o \in TallyOverrides, t \in ClockReadings :
          StoreHasRoom(r) /\ ClockHasRoom(t) /\ createProposal(r, FALSE, o[1], o[2], o[3], t)
    \/ \E id \in DOMAIN proposals, v \in Voters, c \in PairVoteInputs, w \in Powers :
          LedgerHasRoom(id, v, c) /\ submitVote(id, v, c, w)
    \/ \E id \in DOMAIN proposals, e \in Executors :
          executeDecision(id, e, FALSE)

SpecClock == Init /\ [][NextClock]_vars

\* ------------------------------------------------------------------ claims
\* A call's outcome is the value its validation sequence returns
\* (lastCall' = err in submitVote and executeDecision), so "a call with
\* inputs x made in state s fails with E" is stated as: in every reachable
\* state s and for all x, the validation sequence returns E.

\* the ledger holds at most one record per (proposalId, voter)
UniqueVotes ==
    \A i, j \in 1..Len(votes) :
        (votes[i].proposal_id = votes[j].proposal_id /\ votes[i].voter = votes[j].voter)
            => i = j

\* a submitVote call for a pair that has a record is rejected, whatever the
\* choice (valid or not): as AlreadyVoted while now <= voting_ends_at
RepeatVoteRejected ==
    \A id \in DOMAIN proposals, v \in Voters, c \in VoteInputs :
        votesHas(voteKey(id, v)) =>
            /\ submitVoteError(id, v, c) \in {AlreadyVoted, VotingClosed}
            /\ clock <= proposals[id].voting_ends_at
                  => submitVoteError(id, v, c) = AlreadyVoted

\* C1: at most one vote record exists per (proposalId, voter); a submitVote
\* call for a pair that already has a record, made with any choice and any
\* power, is rejected and leaves ledger and tally as they were; the rejection
\* is AlreadyVoted whenever the call reaches the ledger check (after
\* voting_ends_at the earlier deadline check rejects it, see C5).
C1_OneVotePerVoter ==
    /\ []UniqueVotes
    /\ []RepeatVoteRejected
    /\ [][lastCall' = AlreadyVoted => UNCHANGED <<votes, proposals>>]_vars

\* a second call by a voter who has a record was rejected as AlreadyVoted
C1_Witness ==
    /\ lastCall = AlreadyVoted
    /\ \E i \in 1..Len(votes) :
          /\ votes[i].proposal_id \in DOMAIN proposals
          /\ proposals[votes[i].proposal_id].voting_stats.total_votes = 1

\* C2: for every stored proposal, voting_stats.total_votes equals the number
\* of ledger records whose proposal_id is that proposal's id
C2_TallyMatchesLedger ==
    \A id \in DOMAIN proposals :
        proposals[id].voting_stats.total_votes = Cardinality(getProposalVotes(id))

\* the executeDecision calls for id that are suspended at the await: each has
\* passed the AlreadyExecuted guard and invoked executeProposalLogic
InFlight(id) ==
    LET calls == {c \in DOMAIN pending : c.pid = id}
        RECURSIVE sum(_)
        sum(S) == IF S = {} THEN 0
                  ELSE LET x == CHOOSE y \in S : TRUE IN pending[x] + sum(S \ {x})
    IN sum(calls)

\* C3: of the executeDecision calls made concurrently for one proposal id,
\* only one gets past the guard and invokes the executor
C3_SingleFlight ==
    \A id \in ProposalIds : InFlight(id) <= 1

\* an executeDecision call for an id that has a successful return is rejected
\* as AlreadyExecuted, forced or not
ExecutedStaysRejected ==
    \A id \in succeeded, f \in BOOLEAN : executeDecisionError(id, f) = AlreadyExecuted

\* C4: once an executeDecision call for an id has returned successfully,
\* every later executeDecision call for that id, with any executor and any
\* force flag, fails with AlreadyExecuted, invokes no executor and changes
\* nothing
C4_IdempotentExecution ==
    /\ []ExecutedStaysRejected
    /\ [][/\ succeeded \subseteq succeeded'
          /\ lastCall' = AlreadyExecuted => UNCHANGED store
         ]_vars

\* a call on an id that already has a successful return was rejected
C4_Witness ==
    /\ lastCall = AlreadyExecuted
    /\ succeeded # {}

\* a submitVote call made after voting_ends_at is rejected as VotingClosed,
\* whoever the voter, whatever the choice and the tally
LateVoteRejected ==
    \A id \in DOMAIN proposals, v \in Voters, c \in VoteInputs :
        clock > proposals[id].voting_ends_at => submitVoteError(id, v, c) = VotingClosed

\* The deadline check of submitVote: a call made when now > voting_ends_at
\* fails with VotingClosed and records nothing, and a record is only added
\* while now <= voting_ends_at of the proposal that is in the store at the
\* time of the call
DeadlineCheckHolds ==
    /\ []LateVoteRejected
    /\ [][/\ lastCall' = VotingClosed => UNCHANGED <<votes, proposals>>
          /\ Len(votes') > Len(votes) =>
                /\ votes'[Len(votes')].proposal_id \in DOMAIN proposals
                /\ votes'[Len(votes')].timestamp
                      <= proposals[votes'[Len(votes')].proposal_id].voting_ends_at
         ]_vars

\* C5: submitVote after voting_ends_at always fails with VotingClosed, so no
\* vote record ever has a timestamp later than the voting_ends_at of the
\* proposal its proposal_id names
C5_NoLateRecord ==
    \A i \in 1..Len(votes) :
        votes[i].proposal_id \in DOMAIN proposals
            => votes[i].timestamp <= proposals[votes[i].proposal_id].voting_ends_at

\* C6: a proposal id whose status is terminal keeps that status
C6_TerminalIsFinal ==
    [][\A id \in DOMAIN proposals :
            proposals[id].status # "active" => proposals'[id].status = proposals[id].status
      ]_vars

\* C7: when the executor fails (it throws, or it reports
\* execution_successful = false) the call fails with ExecutionFailed and the
\* proposal is neither marked executed nor added to executedProposals
C7_ExecutorFailureLeavesActive ==
    [][\A call \in DOMAIN pending, o \in {"unsuccessful", "throws"} :
            (/\ ~call.orphaned
             /\ proposals[call.pid].status = "active"
             /\ call.pid \notin executedProposals
             /\ executeDecisionResume(call, o))
                => /\ lastCall' = "executionError"
                   /\ proposals'[call.pid].status = "active"
                   /\ call.pid \notin executedProposals'
      ]_vars

\* C8: a forced execution of a proposal whose verdict is Failed ends in
\* status failed, not executed
C8_ForcedFailedVerdictIsFailed ==
    [][\A id \in DOMAIN proposals, e \in Executors :
            (/\ ~calculateFinalResult(proposals[id]).passed
             /\ lastCall' = "ok"
             /\ executeDecision(id, e, TRUE))
                => proposals'[id].status = "failed"
      ]_vars

RejectedMessages ==
    {ProposalFailedMessage("Quorum not met"),
     ProposalFailedMessage("Approval threshold not met")}

\* an unforced executeDecision call on a proposal that is not executed, whose
\* voting has ended and whose verdict is Failed, is rejected with the
\* verdict's reason
FailedVerdictRejected ==
    \A id \in DOMAIN proposals :
        (/\ id \notin executedProposals
         /\ clock > proposals[id].voting_ends_at
         /\ ~calculateFinalResult(proposals[id]).passed)
            => /\ executeDecisionError(id, FALSE) \in RejectedMessages
               /\ executeDecisionError(id, FALSE) =
                     ProposalFailedMessage(calculateFinalResult(proposals[id]).reason)

\* C9: executeDecision without force on a proposal whose verdict is Failed
\* (one that is not executed and whose voting has ended) fails with
\* ProposalRejected carrying the verdict's reason, invokes no executor and
\* leaves status, execution_result and executedProposals as they were
C9_RejectedLeavesActive ==
    /\ []FailedVerdictRejected
    /\ [][lastCall' \in RejectedMessages
             => /\ UNCHANGED store
                /\ \E id \in DOMAIN proposals : proposals'[id].status = "active"
         ]_vars

\* a proposal with votes was rejected for its approval rate and is still active
C9_Witness ==
    /\ lastCall = ProposalFailedMessage("Approval threshold not met")
    /\ \E id \in DOMAIN proposals :
          /\ proposals[id].status = "active"
          /\ proposals[id].voting_stats.total_votes > 0
          /\ id \notin executedProposals

\* while now <= voting_ends_at, an executeDecision call on a proposal that is
\* not executed is rejected as VotingStillActive without force, whatever the
\* tally, and passes validation with force
EarlyExecutionRejected ==
    \A id \in DOMAIN proposals :
        (id \notin executedProposals /\ clock <= proposals[id].voting_ends_at)
            => /\ executeDecisionError(id, FALSE) = VotingStillActive
               /\ executeDecisionError(id, TRUE) = "ok"

\* C10: executeDecision without force, called while now <= voting_ends_at (on
\* a proposal that is not executed), fails with VotingStillActive whatever
\* the tally, invokes no executor and changes nothing; with force the same
\* call is not rejected
C10_VotingStillActive ==
    /\ []EarlyExecutionRejected
    /\ [][lastCall' = VotingStillActive => UNCHANGED store]_vars

\* an unforced call on a proposal whose tally already passes was rejected at
\* the very end of the voting period
C10_Witness ==
    /\ lastCall = VotingStillActive
    /\ \E id \in DOMAIN proposals :
          /\ clock = proposals[id].voting_ends_at
          /\ calculateFinalResult(proposals[id]).passed
          /\ proposals[id].status = "active"

\* the messages of the errors thrown by the validation of submitVote and of
\* executeDecision
ValidationErrors ==
    {NotFound, VotingClosed, AlreadyVoted, InvalidChoice, VotingStillActive, AlreadyExecuted}

\* a call with an id that is not in the store is rejected as NotFound
UnknownIdRejected ==
    /\ \A v \in Voters, c \in VoteInputs : submitVoteError(UnknownId, v, c) = NotFound
    /\ \A f \in BOOLEAN : executeDecisionError(UnknownId, f) = NotFound

\* a first vote on an open proposal with an option other than for, against,
\* abstain is rejected as InvalidChoice
InvalidChoiceRejected ==
    \A id \in DOMAIN proposals, v \in Voters :
        (clock <= proposals[id].voting_ends_at /\ ~votesHas(voteKey(id, v)))
            => submitVoteError(id, v, "invalid_option") = InvalidChoice

\* C11: a submitVote or executeDecision call rejected by validation (unknown
\* id, voting closed, already voted, invalid option, voting still active,
\* already executed) leaves the proposal store with every tally, the ledger,
\* executedProposals and the suspended executor calls as they were
C11_RejectedCallChangesNothing ==
    /\ []UnknownIdRejected
    /\ []InvalidChoiceRejected
    /\ [][lastCall' \in ValidationErrors => UNCHANGED store]_vars

\* a vote with an invalid option was rejected on a proposal that has a tally
C11_Witness ==
    /\ lastCall = InvalidChoice
    /\ \E id \in DOMAIN proposals :
          /\ proposals[id].voting_stats.total_votes = 1
          /\ Cardinality(getProposalVotes(id)) = 1

\* C12: every vote record has voting_power > 0 and every voting power
\* counter of every tally is non-negative (a vote with votingPower <= 0 is
\* rejected as InvalidPower and recorded nowhere)
C12_PositivePower ==
    /\ \A i \in 1..Len(votes) : votes[i].voting_power > 0
    /\ \A id \in DOMAIN proposals :
          /\ proposals[id].voting_stats.voting_power_for >= 0
          /\ proposals[id].voting_stats.voting_power_against >= 0
          /\ proposals[id].voting_stats.voting_power_abstain >= 0

\* C13: for every tally and governance parameters, calculateFinalResult
\* returns passed exactly when the participation rate
\* (for + against + abstain) / total power * 100 is at least the quorum
\* threshold and the approval rate for / (for + against) * 100 (abstain
\* excluded, 0 when for + against = 0) is at least the approval threshold;
\* a failed verdict names the quorum when the quorum is not met and the
\* approval threshold only when the quorum is met
C13_VerdictRule ==
    \A id \in DOMAIN proposals :
        LET p == proposals[id]
            s == p.voting_stats
            g == p.governance_params
            r == calculateFinalResult(p)
            cast == s.voting_power_for + s.voting_power_against + s.voting_power_abstain
            decided == s.voting_power_for + s.voting_power_against
            quorum == cast * 100 >= g.quorum_threshold * TotalVotingPower
            approval == IF decided = 0 THEN 0 >= g.approval_threshold
                        ELSE IF decided > 0
                             THEN s.voting_power_for * 100 >= g.approval_threshold * decided
                             ELSE s.voting_power_for * 100 <= g.approval_threshold * decided
        IN /\ r.passed = (quorum /\ approval)
           /\ r.quorum_met = quorum
           /\ r.approval_met = approval
           /\ decided = 0 => RateIs(r.approval_rate, 0)
           /\ ~quorum => r.reason = "Quorum not met"
           /\ (quorum /\ ~approval) => r.reason = "Approval threshold not met"
           /\ (quorum /\ approval) => r.reason = "Proposal approved by governance"

\* C14: with quorum 10, approval 51 and an eligible power of 10,000, after
\* voter v1 votes for with power 6,000 and voter v2 votes against with power
\* 4,000 the result has participation rate 100, approval rate 60, both
\* conditions met and the verdict passed
C14_EndToEndFigures ==
    \A id \in DOMAIN proposals :
        LET p == proposals[id]
            r == calculateFinalResult(p)
        IN (/\ p.governance_params.quorum_threshold = 10
            /\ p.governance_params.approval_threshold = 51
            /\ p.voting_stats.voter_addresses = <<"v1", "v2">>
            /\ p.voting_stats.voting_power_for = 6000
            /\ p.voting_stats.voting_power_against = 4000
            /\ p.voting_stats.voting_power_abstain = 0)
              => /\ RateIs(r.participation_rate, 100)
                 /\ RateIs(r.approval_rate, 60)
                 /\ r.quorum_met
                 /\ r.approval_met
                 /\ r.passed

\* C15: no proposal id is reused: a stored proposal is never replaced by
\* another one under its id (what createProposal fixed, its creation time,
\* deadline, executable code and governance parameters, stays) and its tally
\* is never lost
C15_NoIdReuse ==
    [][\A id \in DOMAIN proposals :
            /\ id \in DOMAIN proposals'
            /\ proposals'[id].created_at = proposals[id].created_at
            /\ proposals'[id].voting_ends_at = proposals[id].voting_ends_at
            /\ proposals'[id].execution = proposals[id].execution
            /\ proposals'[id].governance_params = proposals[id].governance_params
            /\ proposals'[id].voting_stats.total_votes >= proposals[id].voting_stats.total_votes
      ]_vars

\* a first vote with a valid option on an open proposal passes validation
FreshVoteAccepted ==
    \A id \in DOMAIN proposals, v \in Voters, c \in {"for", "against", "abstain"} :
        (clock <= proposals[id].voting_ends_at /\ ~votesHas(voteKey(id, v)))
            => submitVoteError(id, v, c) = "ok"

\* C16: votes of different voters on one open proposal are all accepted and
\* none is lost: each accepted vote with choice c and power w adds one record
\* and increases total_votes by 1, the count of c by 1 and the voting power
\* of c by w, leaving the counters of the other two choices as they were
C16_NoLostUpdate ==
    /\ []FreshVoteAccepted
    /\ [][Len(votes') > Len(votes) =>
            LET r == votes'[Len(votes')]
                s == proposals[r.proposal_id].voting_stats
                t == proposals'[r.proposal_id].voting_stats
                for == IF r.vote = "for" THEN 1 ELSE 0
                against == IF r.vote = "against" THEN 1 ELSE 0
                abstain == IF r.vote = "abstain" THEN 1 ELSE 0
            IN /\ lastCall' = "ok"
               /\ Len(votes') = Len(votes) + 1
               /\ for + against + abstain = 1
               /\ t.total_votes = s.total_votes + 1
               /\ t.voter_addresses = Append(s.voter_addresses, r.voter)
               /\ t.votes_for = s.votes_for + for
               /\ t.votes_against = s.votes_against + against
               /\ t.votes_abstain = s.votes_abstain + abstain
               /\ t.voting_power_for = s.voting_power_for + for * r.voting_power
               /\ t.voting_power_against = s.voting_power_against + against * r.voting_power
               /\ t.voting_power_abstain = s.voting_power_abstain + abstain * r.voting_power
         ]_vars

\* two voters have voted on one proposal, one for and one against, and the
\* tally holds both votes
C16_Witness ==
    /\ lastCall = "ok"
    /\ Len(votes) = 2
    /\ votes[1].proposal_id = votes[2].proposal_id
    /\ votes[1].voter # votes[2].voter
    /\ votes[1].vote = "for"
    /\ votes[2].vote = "against"
    /\ votes[1].proposal_id \in DOMAIN proposals
    /\ proposals[votes[1].proposal_id].voting_stats.total_votes = 2
    /\ proposals[votes[1].proposal_id].voting_stats.voting_power_for = votes[1].voting_power
    /\ proposals[votes[1].proposal_id].voting_stats.voting_power_against = votes[2].voting_power

\* C17: every stored proposal has quorum_threshold and approval_threshold in
\* (0, 100] and a positive voting period (createProposal rejects other
\* overrides as InvalidParams and stores nothing)
C17_ParamsInRange ==
    \A id \in DOMAIN proposals :
        /\ proposals[id].governance_params.quorum_threshold \in 1..100
        /\ proposals[id].governance_params.approval_threshold \in 1..100
        /\ proposals[id].governance_params.voting_period_days > 0

\* the override where one is supplied, the configured default otherwise
Chosen(override, default) == IF override # Null THEN override ELSE default

\* the proposal createProposal is to build from the overrides o: active, with
\* an all-zero tally and no voters, without execution result, with each
\* governance parameter the override or else the default, ending one voting
\* period after its creation
FreshProposal(p, o) ==
    /\ p.status = "active"
    /\ p.execution_result = NoResult
    /\ p.voting_stats = [total_votes |-> 0, votes_for |-> 0, votes_against |-> 0,
                         votes_abstain |-> 0, voter_addresses |-> <<>>,
                         voting_power_for |-> 0, voting_power_against |-> 0,
                         voting_power_abstain |-> 0]
    /\ p.governance_params.quorum_threshold = Chosen(o[1], ConfigQuorumThreshold)
    /\ p.governance_params.approval_threshold = Chosen(o[2], ConfigApprovalThreshold)
    /\ p.governance_params.voting_period_days = Chosen(o[3], ConfigVotingPeriodDays)
    /\ p.voting_ends_at = p.created_at + p.governance_params.voting_period_days * Day

\* C18: a successful createProposal stores a proposal with status active, an
\* all-zero tally and no voters, governance parameters equal to the override
\* where one is supplied and to the configured default otherwise, and
\* voting_ends_at = created_at + that voting period
C18_CreateStoresFreshProposal ==
    \A i \in 1..Len(emitted) :
        emitted[i].name = "proposalCreated" =>
            /\ emitted[i].proposalId \in DOMAIN proposals
            /\ \E o \in TallyOverrides :
                  FreshProposal(proposals[emitted[i].proposalId], o)

\* C19: monitorVotes is a pure read: for every proposalId filter, every
\* includeHistory and every limit, a monitorVotes call leaves the proposal
\* store (every status and tally), the ledger, executedProposals and the
\* suspended executor calls unchanged
C19_MonitorIsPureRead ==
    [][lastCall' = "monitored" => UNCHANGED <<clock, store, succeeded>>]_vars

\* monitorVotes returned in a state that holds a proposal with votes whose
\* voting has ended
C19_Witness ==
    /\ lastCall = "monitored"
    /\ \E id \in DOMAIN proposals :
          /\ clock > proposals[id].voting_ends_at
          /\ proposals[id].status = "active"
          /\ proposals[id].voting_stats.total_votes > 0

\* C20: monitorVotes lists a proposal in active_proposals exactly when
\* now <= voting_ends_at and its status is active (and, with a proposalId,
\* only that proposal); an executed proposal is never listed
C20_ActiveListing ==
    lastCall = "monitored" =>
        \A filter \in {{}} \cup {{id} : id \in DOMAIN proposals}, id \in DOMAIN proposals :
            id \in activeProposals(filter)
                <=> /\ filter = {} \/ id \in filter
                    /\ clock <= proposals[id].voting_ends_at
                    /\ proposals[id].status = "active"

\* the vote records of proposal id, in ledger order
recordsOf(ledger, id) == SelectSeq(ledger, LAMBDA rec : rec.proposal_id = id)

\* the step is a call of createProposal, submitVote or executeDecision (up to
\* or from its await) that targets proposal p
Targets(p) ==
    \/ \E r \in RandSuffix, x \in BOOLEAN :
          p = generateProposalId(clock, r) /\ createProposal(r, x, Null, Null, Null, NoDelay)
    \/ \E v \in PairVoters, c \in PairVoteInputs, w \in Powers : submitVote(p, v, c, w)
    \/ \E e \in Executors, f \in BOOLEAN : executeDecision(p, e, f)
    \/ \E call \in DOMAIN pending, o \in PairOutcomes :
          call.pid = p /\ executeDecisionResume(call, o)

\* proposal q is as it was: its object (status, tally, execution_result), its
\* vote records and its membership of executedProposals
Untouched(q) ==
    /\ q \in DOMAIN proposals'
    /\ proposals'[q] = proposals[q]
    /\ recordsOf(votes', q) = recordsOf(votes, q)
    /\ (q \in executedProposals') = (q \in executedProposals)

\* C21: a call of createProposal, submitVote or executeDecision that targets
\* proposal p, whether it succeeds or fails, leaves the status, the tally, the
\* execution_result and the vote records of every other proposal q unchanged.
C21_FrameAcrossProposals ==
    [][LET changed == {q \in DOMAIN proposals : ~Untouched(q)}
       IN changed # {} =>
             \A p \in DOMAIN proposals' \cup {UnknownId} : Targets(p) => changed \subseteq {p}]_vars

\* two proposals are stored, one has been voted on and executed, and the last
\* step was an accepted vote on the other
C21_Witness ==
    \E p, q \in DOMAIN proposals :
        /\ p # q
        /\ proposals[q].status = "executed"
        /\ recordsOf(votes, q) # <<>>
        /\ emitted # <<>>
        /\ emitted[1].name = "voteSubmitted"
        /\ emitted[1].proposalId = p

\* the stored proposals whose status the step changes
statusChanged == {q \in DOMAIN proposals : proposals'[q].status # proposals[q].status}

\* C22: a proposal's status is changed only by executeDecision: createProposal
\* (for other ids), submitVote, monitorVotes and the passage of time never
\* change the status of a stored proposal nor the executedProposals set.
C22_OnlyExecuteChangesStatus ==
    [][(statusChanged # {} \/ executedProposals' # executedProposals) =>
          /\ \A d \in DaySteps : ~Tick(d)
          /\ \A id \in CallIds, v \in PairVoters, c \in PairVoteInputs, w \in Powers :
                ~submitVote(id, v, c, w)
          /\ \A l \in Limits : ~monitorVotes({}, FALSE, l)
          /\ \A r \in RandSuffix, x \in BOOLEAN :
                createProposal(r, x, Null, Null, Null, NoDelay) =>
                    /\ statusChanged \subseteq {generateProposalId(clock, r)}
                    /\ executedProposals' = executedProposals]_vars

\* one proposal is executed, another is still active after its deadline with a
\* vote on record, and the last step was a monitorVotes call
C22_Witness ==
    \E p, q \in DOMAIN proposals :
        /\ p # q
        /\ proposals[q].status = "executed"
        /\ q \in executedProposals
        /\ proposals[p].status = "active"
        /\ clock > proposals[p].voting_ends_at
        /\ recordsOf(votes, p) # <<>>
        /\ lastCall = "monitored"

\* C23: a proposal's execution_result is absent for as long as the proposal is
\* active, and once set it is never overwritten by a step other than a
\* createProposal, under any interleaving of executeDecision calls including
\* failed attempts.
C23_ExecutionResultSetOnce ==
    /\ [](\A id \in DOMAIN proposals :
            proposals[id].status = "active" => proposals[id].execution_result = NoResult)
    /\ [][\A id \in DOMAIN proposals :
            (/\ proposals[id].execution_result # NoResult
             /\ ~(emitted' # <<>> /\ emitted'[1].name = "proposalCreated")) =>
                proposals'[id].execution_result = proposals[id].execution_result]_vars

\* the order of the vote identifiers `${proposalId}_${voter}` as strings
VoterRank == [v \in Voters |-> IF v = "v1" THEN 1 ELSE 2]

keyBefore(a, b) ==
    \/ a.proposal_id[1] < b.proposal_id[1]
    \/ a.proposal_id = b.proposal_id /\ VoterRank[a.voter] < VoterRank[b.voter]

\* C24: the recent_votes list of monitorVotes holds at most `limit` records,
\* most recent first, and records of equal timestamps are in the order of
\* their identifiers.
C24_RecentVotesOrder ==
    lastCall = "monitored" =>
        \A l \in TallyLimits :
            LET rv == recentVotes(l)
            IN /\ Len(rv) <= l
               /\ \A i, j \in 1..Len(rv) :
                     i < j => \/ rv[i].timestamp > rv[j].timestamp
                              \/ /\ rv[i].timestamp = rv[j].timestamp
                                 /\ keyBefore(rv[i], rv[j])

\* the outcomes of a call that returns (or is suspended), as opposed to throwing
Returned == {"ok", "awaiting", "monitored"}

\* the events left by the last step describe the state it left: a
\* voteSubmitted event carries the stored tally, which counts the voter, and
\* the vote is on record; a proposalCreated event names a stored proposal
\* created now, with no vote counted
EventsFollowState ==
    /\ Len(emitted) <= 1
    /\ lastCall \notin Returned => emitted = <<>>
    /\ \A i \in 1..Len(emitted) :
          LET e == emitted[i]
          IN /\ e.proposalId \in DOMAIN proposals
             /\ e.name = "voteSubmitted" =>
                   /\ e.payload.currentStats = proposals[e.proposalId].voting_stats
                   /\ \E k \in 1..Len(e.payload.currentStats.voter_addresses) :
                         e.payload.currentStats.voter_addresses[k] = e.payload.voter
                   /\ \E k \in 1..Len(votes) :
                         /\ votes[k].proposal_id = e.proposalId
                         /\ votes[k].voter = e.payload.voter
                         /\ votes[k].vote = e.payload.vote
                         /\ votes[k].voting_power = e.payload.votingPower
                         /\ votes[k].timestamp = clock
             /\ e.name = "proposalCreated" =>
                   /\ proposals[e.proposalId].created_at <= clock
                   /\ proposals[e.proposalId].status = "active"
                   /\ proposals[e.proposalId].voting_stats = InitialStats
                   /\ e.payload.votingPeriod =
                         proposals[e.proposalId].governance_params.voting_period_days

\* C25: exactly one proposalCreated event is emitted per successful
\* createProposal and exactly one voteSubmitted event per accepted vote, each
\* after the state update is in place (the voteSubmitted payload carries the
\* updated tally), and a call that fails emits no event.
C25_EventsFollowState ==
    /\ []EventsFollowState
    /\ [][/\ votes' # votes =>
                  (Len(emitted') = 1 /\ emitted'[1].name = "voteSubmitted")
          /\ DOMAIN proposals' # DOMAIN proposals =>
                  (Len(emitted') = 1 /\ emitted'[1].name = "proposalCreated")
          /\ (emitted' # <<>> /\ emitted'[1].name = "voteSubmitted") => votes' # votes
          /\ (emitted' # <<>> /\ emitted'[1].name = "proposalCreated") =>
                  proposals'[emitted'[1].proposalId].execution_result = NoResult]_vars

\* the second accepted vote on a proposal has just emitted its event, whose
\* payload counts both votes
C25_Witness ==
    /\ emitted # <<>>
    /\ emitted[1].name = "voteSubmitted"
    /\ emitted[1].payload.currentStats.total_votes = 2
    /\ Len(votes) = 2

\* C26: a proposal id is in executedProposals if and only if the stored
\* proposal with that id has status 'executed'.
C26_ExecutedSetMatchesStatus ==
    /\ executedProposals \subseteq DOMAIN proposals
    /\ \A id \in DOMAIN proposals :
          id \in executedProposals <=> proposals[id].status = "executed"

\* C27: once a proposal is executed no further vote on it is accepted, its
\* tally never changes again, and the final result stored in execution_result
\* stays the verdict of the proposal's tally.
C27_ExecutedIsFrozen ==
    /\ [](\A id \in DOMAIN proposals :
            proposals[id].status = "executed" =>
                /\ \A v \in Voters, c \in {"for", "against", "abstain"} :
                      submitVoteError(id, v, c) # "ok"
                /\ proposals[id].execution_result.final_result =
                      calculateFinalResult(proposals[id]))
    /\ [][\A id \in DOMAIN proposals :
            (proposals[id].status = "executed" /\ proposals'[id].status = "executed") =>
                proposals'[id].voting_stats = proposals[id].voting_stats]_vars

\* C28: for every proposal total_votes = votes_for + votes_against +
\* votes_abstain, and voter_addresses has no duplicates, has length
\* total_votes and holds exactly the voters with a vote record for it.
C28_TallyShape ==
    \A id \in DOMAIN proposals :
        LET s == proposals[id].voting_stats
            a == s.voter_addresses
        IN /\ s.total_votes = s.votes_for + s.votes_against + s.votes_abstain
           /\ \A i, j \in 1..Len(a) : a[i] = a[j] => i = j
           /\ Len(a) = s.total_votes
           /\ {a[i] : i \in 1..Len(a)} = {votes[i].voter : i \in getProposalVotes(id)}

\* C29: for every proposal with powerFor + powerAgainst > 0,
\* calculateCurrentResult reports 'passing' exactly when calculateFinalResult
\* reports approval_met, the approval rate equal to the threshold included.
C29_LiveStatusMatchesVerdict ==
    \A id \in DOMAIN proposals :
        LET s == proposals[id].voting_stats
        IN s.voting_power_for + s.voting_power_against > 0 =>
              (calculateCurrentResult(proposals[id]).status = "passing"
                  <=> calculateFinalResult(proposals[id]).approval_met)

\* C30: a proposal is returned by getActiveProposals if and only if
\* monitorVotes (without proposalId) lists it in active_proposals, if and only
\* if submitVote does not reject a vote on it as closed.
C30_OpenNotionsAgree ==
    \A id \in DOMAIN proposals :
        /\ id \in getActiveProposals <=> id \in activeProposals({})
        /\ id \in activeProposals({})
              <=> \A v \in Voters : submitVoteError(id, v, "for") # VotingClosed
====
